---- MODULE Spec2Model ----
(***************************************************************************)
(* gerador_de_noticias.py: one run of main().  The run asks the text model *)
(* for trending topics, then for every topic among the first               *)
(* ARTICLES_TO_GENERATE asks for an article and for an image, and at last  *)
(* renders the articles into the template.  Every request goes through     *)
(* query_api, the retry helper.                                            *)
(*                                                                         *)
(* Strings are sequences of tokens: a token is a word, a label, a blank    *)
(* " ", a newline "\n", a semicolon ";" or the echoed prompt.              *)
(***************************************************************************)
EXTENDS Integers, Sequences, FiniteSets, TLC

\* ---------------------------------------------------------------- constants
ARTICLES_TO_GENERATE == 3

\* query_api's default arguments
retries == 3

initial_wait == 10

\* ------------------------------------------------------------------- bounds
\* lines of an article text the model may answer with
MaxLines == 3

\* semicolon-separated segments the model may answer the topic prompt with
MaxSegments == 4

\* estimated_time values a 503 body may carry: 1..MaxEstimatedTime
MaxEstimatedTime == 1

VARIABLES
    pc,             \* "query" | "returned" | "assemble" | "done" | "crashed" | "parse" | "parsed"
    caller,         \* which function is inside / has just left query_api
    i,              \* query_api's loop variable
    response,       \* query_api's response: the outcome of its latest POST
    attempts,       \* POSTs issued by the current query_api call
    slept,          \* time.sleep calls of the current query_api call
    wait_time,      \* duration of its latest time.sleep
    all_loading,    \* every POST of the current call was answered 503 with estimated_time
    ret,            \* query_api's return value: "pending" | "Response" | "None"
    posts,          \* POSTs issued in the whole run
    topics,         \* main's topics
    idx,            \* how many topics the for loop of main has taken up
    content,        \* main's content (dictionary returned for the current topic)
    articles_data,  \* main's articles_data
    sources,        \* for each entry of articles_data, the index of its topic
    pauses,         \* time.sleep(5) pauses of main
    file_ops,       \* files main has opened, in order
    output_file,    \* contents of OUTPUT_FILENAME
    lines,          \* generate_article_content: lines
    line_no,        \* generate_article_content: how many of the lines the for loop has taken
    current_key,    \* generate_article_content: current_key
    content_dict    \* generate_article_content: content_dict

vars == <<pc, caller, i, response, attempts, slept, wait_time, all_loading, ret,
          posts, topics, idx, content, articles_data, sources, pauses, file_ops,
          output_file, lines, line_no, current_key, content_dict>>

callVars == <<caller, i, response, attempts, slept, wait_time, all_loading, ret>>
mainVars == <<topics, idx, content, articles_data, sources, pauses>>
fileVars == <<file_ops, output_file>>
parseVars == <<lines, line_no, current_key, content_dict>>

\* ------------------------------------------------------- string operations
BoundedSeq(S, n) == UNION {[1..k -> S] : k \in 0..n}

IsSpace(tok) == tok \in {" ", "\n"}

RECURSIVE lstrip(_)
lstrip(s) == IF s # <<>> /\ IsSpace(Head(s)) THEN lstrip(Tail(s)) ELSE s

RECURSIVE rstrip(_)
rstrip(s) ==
    IF s # <<>> /\ IsSpace(s[Len(s)]) THEN rstrip(SubSeq(s, 1, Len(s) - 1)) ELSE s

\* str.strip()
strip(s) == rstrip(lstrip(s))

\* str.split(sep): a string without sep gives one piece, the string itself
RECURSIVE split(_, _)
split(s, sep) ==
    IF \E k \in 1..Len(s) : s[k] = sep
    THEN LET k == CHOOSE k \in 1..Len(s) :
                      s[k] = sep /\ \A j \in 1..(k - 1) : s[j] # sep
         IN  <<SubSeq(s, 1, k - 1)>> \o split(SubSeq(s, k + 1, Len(s)), sep)
    ELSE <<s>>

\* str.replace(old, new), old a single token: every occurrence is replaced
RECURSIVE replace(_, _, _)
replace(s, old, new) ==
    IF s = <<>> THEN <<>>
    ELSE (IF Head(s) = old THEN new ELSE <<Head(s)>>) \o replace(Tail(s), old, new)

\* str.startswith(label)
startswith(s, label) == s # <<>> /\ Head(s) = label

\* sep.join(parts)
RECURSIVE join(_, _)
join(parts, sep) ==
    IF parts = <<>> THEN <<>>
    ELSE IF Len(parts) = 1 THEN parts[1]
    ELSE parts[1] \o <<sep>> \o join(Tail(parts), sep)

\* ------------------------------------------------------------ dictionaries
EmptyDict == [k \in {} |-> <<>>]

Put(d, k, v) == (k :> v) @@ d

\* dict.get(k, default)
Get(d, k, default) == IF k \in DOMAIN d THEN d[k] ELSE default

\* ------------------------------------------------------------------ base64
B64Alphabet ==
    <<"A","B","C","D","E","F","G","H","I","J","K","L","M","N","O","P",
      "Q","R","S","T","U","V","W","X","Y","Z","a","b","c","d","e","f",
      "g","h","i","j","k","l","m","n","o","p","q","r","s","t","u","v",
      "w","x","y","z","0","1","2","3","4","5","6","7","8","9","+","/">>

B64Char(n) == B64Alphabet[n + 1]

\* base64.b64encode(image_bytes).decode('utf-8')
RECURSIVE b64encode(_)
b64encode(bytes) ==
    IF bytes = <<>> THEN <<>>
    ELSE IF Len(bytes) = 1 THEN
        <<B64Char(bytes[1] \div 4), B64Char((bytes[1] % 4) * 16), "=", "=">>
    ELSE IF Len(bytes) = 2 THEN
        <<B64Char(bytes[1] \div 4),
          B64Char((bytes[1] % 4) * 16 + bytes[2] \div 16),
          B64Char((bytes[2] % 16) * 4), "=">>
    ELSE
        <<B64Char(bytes[1] \div 4),
          B64Char((bytes[1] % 4) * 16 + bytes[2] \div 16),
          B64Char((bytes[2] % 16) * 4 + bytes[3] \div 64),
          B64Char(bytes[3] % 64)>> \o b64encode(SubSeq(bytes, 4, Len(bytes)))

\* ------------------------------------------------------- what the backend answers
\* The prompt of the current request, which the text model may echo.
Prompt == "<prompt>"

PromptEchoes == {<<>>, <<Prompt, "\n">>}

\* The outcome of one requests.post: status 0 stands for a transport error
\* (requests.post raises, there is no response); json says whether the body
\* decodes as a JSON object; has_est/est are its estimated_time field.
Response(status, json, has_est, est) ==
    [status |-> status, json |-> json, has_est |-> has_est, est |-> est]

OkResponse == Response(200, TRUE, FALSE, 0)

EstimatedTimes == 1..MaxEstimatedTime

LoadingResponses ==
    {Response(503, TRUE, TRUE, t) : t \in EstimatedTimes}
        \cup {Response(503, TRUE, FALSE, 0)}

BadLoadingResponse == Response(503, FALSE, FALSE, 0)

ErrorResponses == {Response(500, TRUE, FALSE, 0)}

TransportError == Response(-1, FALSE, FALSE, 0)

\* no POST issued yet
NoResponse == Response(0, FALSE, FALSE, 0)

\* Whether a response is 503 with a JSON body carrying estimated_time.
IsLoading(resp) == resp.status = 503 /\ resp.json /\ resp.has_est

\* The name the model gives a topic.
TopicName == "topic"

\* The model's answer to the topic prompt, segment by segment: a segment is
\* blank or names a topic, with blanks around the name.
TopicSegmentLists == BoundedSeq({<<" ">>, <<" ", TopicName, " ">>}, MaxSegments)

\* generated_text of a well-shaped answer to the topic prompt
TopicTexts ==
    {echo \o join(segs, ";") : echo \in PromptEchoes, segs \in TopicSegmentLists}

\* The lines the model may write in an article text.
LineSet ==
    {<<"TITULO:", " ", "t">>,
     <<"CONTEUDO:", " ", "c">>,
     <<"METADESCRIPTION:", " ", "m">>,
     <<"p", " ">>,
     <<" ">>}

\* generated_text of a well-shaped answer to the article prompt
ArticleTexts ==
    {echo \o join(ls, "\n") : echo \in PromptEchoes, ls \in BoundedSeq(LineSet, MaxLines)}

\* response.content of the image endpoint (the first bytes of a PNG file)
ImageBodies == {<<137, 80, 78, 71>>}

\* --------------------------------------------------------------- query_api
\* line 39 without the estimated_time lookup
WaitTimeIgnoresEstimate(resp) == initial_wait

\* line 39: response.json().get('estimated_time', initial_wait)
WaitTime(resp) == IF resp.has_est THEN resp.est ELSE initial_wait

\* line 31: requests.post
Issue(resp) ==
    /\ posts' = posts + 1
    /\ attempts' = attempts + 1
    /\ response' = resp
    /\ all_loading' = (all_loading /\ IsLoading(resp))

\* lines 34-35 without the return: a 200 is handled like any other status
Handle200FallsThrough ==
    /\ slept' = slept + 1
    /\ wait_time' = initial_wait
    /\ i' = i + 1
    /\ IF i + 1 < retries
       THEN pc' = "query" /\ ret' = ret
       ELSE pc' = "returned" /\ ret' = "None"

\* lines 34-35: return response
Handle200 ==
    /\ pc' = "returned"
    /\ ret' = "Response"
    /\ UNCHANGED <<slept, wait_time, i>>

\* time.sleep(wait), then the next round of the for loop; when range(retries)
\* is used up, lines 48-49: return None
Retry(wait) ==
    /\ slept' = slept + 1
    /\ wait_time' = wait
    /\ i' = i + 1
    /\ IF i + 1 < retries
       THEN pc' = "query" /\ ret' = ret
       ELSE pc' = "returned" /\ ret' = "None"

\* an exception leaves query_api; no caller catches it (the calls at lines 56,
\* 85 and 118 are outside every try), so it leaves main as well
Raise ==
    /\ pc' = "crashed"
    /\ UNCHANGED <<slept, wait_time, i, ret>>

Post200 ==
    /\ pc = "query" /\ i < retries
    /\ Issue(OkResponse)
    /\ Handle200
    /\ UNCHANGED <<caller, mainVars, fileVars, parseVars>>

Post503 ==
    /\ pc = "query" /\ i < retries
    /\ \E resp \in LoadingResponses :
        /\ Issue(resp)
        /\ Retry(WaitTime(resp))
    /\ UNCHANGED <<caller, mainVars, fileVars, parseVars>>

\* line 39 on a body that is no JSON object: response.json() raises
Post503BadBody ==
    /\ pc = "query" /\ i < retries
    /\ Issue(BadLoadingResponse)
    /\ Raise
    /\ UNCHANGED <<caller, mainVars, fileVars, parseVars>>

PostOther ==
    /\ pc = "query" /\ i < retries
    /\ \E resp \in ErrorResponses :
        /\ Issue(resp)
        /\ Retry(initial_wait)
    /\ UNCHANGED <<caller, mainVars, fileVars, parseVars>>

\* line 31 raising (connection refused, DNS failure, ...)
PostTransportError ==
    /\ pc = "query" /\ i < retries
    /\ Issue(TransportError)
    /\ Raise
    /\ UNCHANGED <<caller, mainVars, fileVars, parseVars>>

\* a caller enters query_api
StartCall(who) ==
    /\ pc' = "query"
    /\ caller' = who
    /\ i' = 0
    /\ response' = NoResponse
    /\ attempts' = 0
    /\ slept' = 0
    /\ wait_time' = 0
    /\ all_loading' = TRUE
    /\ ret' = "pending"

\* the frame of the finished query_api call is gone and no call follows
EndCall ==
    /\ caller' = "main"
    /\ i' = 0
    /\ response' = NoResponse
    /\ attempts' = 0
    /\ slept' = 0
    /\ wait_time' = 0
    /\ all_loading' = TRUE
    /\ ret' = "pending"

\* ---------------------------------------------------- get_trending_topics
Min(a, b) == IF a < b THEN a ELSE b

NonEmpty(str) == str # <<>>

\* lines 61-64: strip the echoed prompt, split on ';', trim, drop the empty
ParseTopics(generated_text) ==
    LET clean_text == strip(replace(generated_text, Prompt, <<>>))
        pieces == split(clean_text, ";")
        trimmed == [k \in 1..Len(pieces) |-> strip(pieces[k])]
    IN  SelectSeq(trimmed, NonEmpty)

\* ----------------------------------------------- generate_article_content
\* line 89 and 91: the lines of the text without the echoed prompt
ArticleLines(generated_text) ==
    LET text_result == strip(replace(generated_text, Prompt, <<>>))
    IN  split(strip(text_result), "\n")

Seed(st, key, label, line) ==
    [key |-> key, dict |-> Put(st.dict, key, strip(replace(line, label, <<>>)))]

\* lines 94-104 with the append open to every active field
ParseLineAppendsToActive(st, line) ==
    IF startswith(line, "TITULO:") THEN Seed(st, "title", "TITULO:", line)
    ELSE IF startswith(line, "CONTEUDO:") THEN Seed(st, "content", "CONTEUDO:", line)
    ELSE IF startswith(line, "METADESCRIPTION:")
         THEN Seed(st, "meta", "METADESCRIPTION:", line)
    ELSE IF st.key # "None" /\ strip(line) # <<>>
         THEN [st EXCEPT !.dict = Put(st.dict, st.key,
                                      st.dict[st.key] \o <<"\n">> \o strip(line))]
    ELSE st

\* lines 94-104: one round of the for loop; st is (current_key, content_dict)
ParseLine(st, line) ==
    IF startswith(line, "TITULO:") THEN Seed(st, "title", "TITULO:", line)
    ELSE IF startswith(line, "CONTEUDO:") THEN Seed(st, "content", "CONTEUDO:", line)
    ELSE IF startswith(line, "METADESCRIPTION:")
         THEN Seed(st, "meta", "METADESCRIPTION:", line)
    ELSE IF st.key = "content" /\ strip(line) # <<>>
         THEN [st EXCEPT !.dict = Put(st.dict, "content",
                                      st.dict["content"] \o <<"\n">> \o strip(line))]
    ELSE st

\* lines 93-104: the whole for loop
RECURSIVE ParseLines(_, _)
ParseLines(st, ls) ==
    IF ls = <<>> THEN st ELSE ParseLines(ParseLine(st, Head(ls)), Tail(ls))

\* lines 89-107: the dictionary returned for a well-shaped response
ParseArticle(generated_text) ==
    ParseLines([key |-> "None", dict |-> EmptyDict], ArticleLines(generated_text)).dict

\* ------------------------------------------------- generate_article_image
Placeholder == <<"https://placehold.co/600x400/3498db/ffffff?text=Imagem+Indisponível">>

\* lines 122-124
DataUri(image_bytes) == <<"data:image/png;base64,">> \o b64encode(image_bytes)

\* ---------------------------------------------------------- page assembly
Marker == [tag |-> "marker"]

\* template.html: text around one placeholder marker
Template == <<[tag |-> "head"], Marker, [tag |-> "foot"]>>

\* index.html as an earlier run left it
OldPage == <<[tag |-> "old"]>>

\* line 161: the paragraphs of content_html
Paragraphs(text) ==
    LET pieces == split(text, "\n")
        trimmed == [k \in 1..Len(pieces) |-> strip(pieces[k])]
    IN  SelectSeq(trimmed, NonEmpty)

\* lines 162-171: the fragment of one article
ArticleHtml(article) ==
    [tag |-> "article",
     img |-> Get(article, "image_url", <<"None">>),
     alt |-> Get(article, "title", <<"Artigo sem título">>),
     h2 |-> Get(article, "title", <<"None">>),
     paragraphs |-> Paragraphs(Get(article, "content", <<>>)),
     meta |-> Get(article, "meta", <<>>)]

\* lines 159-171
ArticlesHtml(articles) == [k \in 1..Len(articles) |-> ArticleHtml(articles[k])]

\* line 173
FinalHtml(template, articles) == replace(template, Marker, ArticlesHtml(articles))

\* -------------------------------------------------------------------- main
\* line 138 without the slice
TopicsToProcessAll(tps) == tps

\* line 138: topics[:ARTICLES_TO_GENERATE]
TopicsToProcess(tps) == SubSeq(tps, 1, Min(Len(tps), ARTICLES_TO_GENERATE))

\* lines 147-151 without the test of articles_data
AfterLoopAlwaysAssembles(articles) == "assemble"

\* lines 147-151: where main goes when the for loop is over
AfterLoop(articles) == IF articles = <<>> THEN "done" ELSE "assemble"

\* line 138: the for loop takes up the next topic, calling
\* generate_article_content, or is over
Continue(tps, done, articles) ==
    IF done < Len(TopicsToProcess(tps))
    THEN /\ idx' = done + 1
         /\ StartCall("article")
    ELSE /\ idx' = done
         /\ pc' = AfterLoop(articles)
         /\ EndCall

\* lines 133-135: main returns early
Return ==
    /\ pc' = "done"
    /\ EndCall

\* what get_trending_topics may return for a well-shaped response
ParsedTopics == {ParseTopics(generated_text) : generated_text \in TopicTexts}

\* what generate_article_content may return for a well-shaped response
ParsedArticles == {ParseArticle(generated_text) : generated_text \in ArticleTexts}

\* get_trending_topics from line 58 on returning None, and main's lines 133-135
TopicsFail ==
    /\ pc = "returned" /\ caller = "topics"
    /\ \/ ret = "None"
       \/ ret = "Response"      \* a body json() or [0]['generated_text'] rejects
    /\ Return
    /\ UNCHANGED <<posts, mainVars, fileVars, parseVars>>

\* get_trending_topics from line 58 on with a parsed text, and main's lines
\* 132-139 up to the call of query_api in generate_article_content
TopicsReturn ==
    /\ pc = "returned" /\ caller = "topics" /\ ret = "Response"
    /\ \E parsed \in ParsedTopics :
        /\ topics' = parsed
        /\ IF parsed = <<>>
           THEN Return /\ idx' = idx
           ELSE Continue(parsed, 0, articles_data)
    /\ UNCHANGED <<posts, content, articles_data, sources, pauses, fileVars, parseVars>>

\* generate_article_content from line 87 on returning None, and main's line 140
ArticleFail ==
    /\ pc = "returned" /\ caller = "article"
    /\ \/ ret = "None"
       \/ ret = "Response"      \* a body json() or [0]['generated_text'] rejects
    /\ content' = EmptyDict
    /\ Continue(topics, idx, articles_data)
    /\ UNCHANGED <<posts, topics, articles_data, sources, pauses, fileVars, parseVars>>

\* line 140: if content and 'title' in content
Accepts(dict) == dict # EmptyDict /\ "title" \in DOMAIN dict

\* generate_article_content from line 87 on with a parsed text, and main's
\* lines 140-143 up to the call of query_api in generate_article_image
ArticleReturn ==
    /\ pc = "returned" /\ caller = "article" /\ ret = "Response"
    /\ \E parsed \in ParsedArticles :
        /\ content' = parsed
        /\ IF Accepts(parsed)
           THEN /\ pauses' = pauses + 1
                /\ idx' = idx
                /\ StartCall("image")
           ELSE /\ pauses' = pauses
                /\ Continue(topics, idx, articles_data)
    /\ UNCHANGED <<posts, topics, articles_data, sources, fileVars, parseVars>>

\* generate_article_image from line 120 on, and main's lines 144-145
ImageReturn ==
    /\ pc = "returned" /\ caller = "image"
    /\ \E image_url \in
            IF ret = "Response" THEN {DataUri(b) : b \in ImageBodies} ELSE {Placeholder} :
        /\ content' = Put(content, "image_url", image_url)
        /\ articles_data' = Append(articles_data, content')
        /\ sources' = Append(sources, idx)
        /\ Continue(topics, idx, articles_data')
    /\ UNCHANGED <<posts, topics, pauses, fileVars, parseVars>>

\* lines 152-157 with the output written all the same
AssembleWithoutTemplateWrites ==
    /\ pc = "assemble"
    /\ file_ops' = file_ops \o <<"template missing", "write output">>
    /\ output_file' = FinalHtml(<<>>, articles_data)
    /\ pc' = "done"
    /\ UNCHANGED <<callVars, posts, mainVars, parseVars>>

\* lines 152-157: open(TEMPLATE_FILENAME) raises FileNotFoundError
AssembleWithoutTemplate ==
    /\ pc = "assemble"
    /\ file_ops' = Append(file_ops, "template missing")
    /\ pc' = "done"
    /\ UNCHANGED <<callVars, posts, mainVars, output_file, parseVars>>

\* lines 152-154 and 159-176
Assemble ==
    /\ pc = "assemble"
    /\ file_ops' = file_ops \o <<"read template", "write output">>
    /\ output_file' = FinalHtml(Template, articles_data)
    /\ pc' = "done"
    /\ UNCHANGED <<callVars, posts, mainVars, parseVars>>

\* main() is entered: get_trending_topics calls query_api
Init ==
    /\ pc = "query"
    /\ caller = "topics"
    /\ i = 0
    /\ response = NoResponse
    /\ attempts = 0
    /\ slept = 0
    /\ wait_time = 0
    /\ all_loading = TRUE
    /\ ret = "pending"
    /\ posts = 0
    /\ topics = <<>>
    /\ idx = 0
    /\ content = EmptyDict
    /\ articles_data = <<>>
    /\ sources = <<>>
    /\ pauses = 0
    /\ file_ops = <<>>
    /\ output_file = OldPage
    /\ lines = <<>>
    /\ line_no = 0
    /\ current_key = "None"
    /\ content_dict = EmptyDict

Next ==
    \/ Post200
    \/ Post503
    \/ Post503BadBody
    \/ PostOther
    \/ PostTransportError
    \/ TopicsFail
    \/ TopicsReturn
    \/ ArticleFail
    \/ ArticleReturn
    \/ ImageReturn
    \/ AssembleWithoutTemplate
    \/ Assemble

Spec == Init /\ [][Next]_vars

\* Every step of the run is taken sooner or later: the script is one thread
\* that runs until main returns or an exception ends it.
FairSpec == Spec /\ WF_vars(Next)

\* ------------------------------------- the parser of generate_article_content
\* generate_article_content at line 92, with the lines of any text the model
\* may have answered with
ParseInit ==
    /\ pc = "parse"
    /\ caller = "article"
    /\ i = 0
    /\ response = OkResponse
    /\ attempts = 1
    /\ slept = 0
    /\ wait_time = 0
    /\ all_loading = FALSE
    /\ ret = "Response"
    /\ posts = 1
    /\ topics = <<>>
    /\ idx = 0
    /\ content = EmptyDict
    /\ articles_data = <<>>
    /\ sources = <<>>
    /\ pauses = 0
    /\ file_ops = <<>>
    /\ output_file = OldPage
    /\ lines \in {ArticleLines(generated_text) : generated_text \in ArticleTexts}
    /\ line_no = 0
    /\ current_key = "None"
    /\ content_dict = EmptyDict

\* lines 93-104: one round of the for loop
ParseStep ==
    /\ pc = "parse" /\ line_no < Len(lines)
    /\ LET st == ParseLine([key |-> current_key, dict |-> content_dict],
                           lines[line_no + 1])
       IN  /\ current_key' = st.key
           /\ content_dict' = st.dict
    /\ line_no' = line_no + 1
    /\ UNCHANGED <<pc, callVars, posts, mainVars, fileVars, lines>>

\* lines 106-107: return content_dict
ParseEnd ==
    /\ pc = "parse" /\ line_no = Len(lines)
    /\ pc' = "parsed"
    /\ content' = content_dict
    /\ UNCHANGED <<callVars, posts, topics, idx, articles_data, sources, pauses,
                   fileVars, parseVars>>

ParseNext ==
    \/ ParseStep
    \/ ParseEnd

ParseSpec == ParseInit /\ [][ParseNext]_vars

\* ------------------------------------------------------------------ claims
Terminal == pc \in {"done", "crashed"}

Did(op) == \E k \in 1..Len(file_ops) : file_ops[k] = op

MaxPosts == retries * (1 + 2 * ARTICLES_TO_GENERATE)

\* C1: a POST answered 200 ends query_api at once: the helper has returned
\* that response, it slept after every earlier POST of the call and not after
\* this one, and it issues no further POST; a first response of 200 means one
\* POST and no sleep.
C1_ReturnsOn200 ==
    response.status = 200 =>
        /\ pc = "returned"
        /\ ret = "Response"
        /\ slept = attempts - 1
        /\ (attempts = 1 => slept = 0)

C1_Witness ==
    /\ response.status = 200
    /\ attempts = 1
    /\ slept = 0
    /\ ret = "Response"

\* C2: while every POST of a query_api call is answered 503 with an
\* estimated_time, each POST is followed by one sleep of that response's
\* estimated_time, the call goes on until it has issued retries POSTs, and
\* with the retries-th it returns None and issues no more.
C2_GivesUpAfterRetries ==
    (caller # "main" /\ all_loading) =>
        /\ slept = attempts
        /\ attempts <= retries
        /\ (attempts >= 1 => wait_time = response.est)
        /\ (attempts < retries => pc = "query" /\ ret = "pending")
        /\ (attempts = retries => pc = "returned" /\ ret = "None")

C2_Witness ==
    /\ all_loading
    /\ attempts = retries
    /\ slept = retries
    /\ pc = "returned"
    /\ ret = "None"

\* C3: query_api always ends by returning a response or None: no exception
\* leaves it.
C3_NoExceptionPropagates == pc # "crashed"

\* C4: no article without a content field is added to articles_data (a text
\* without a CONTEUDO: line is a parse failure).
C4_ArticlesHaveContent ==
    \A k \in 1..Len(articles_data) : "content" \in DOMAIN articles_data[k]

\* C5: once the template is found missing the output file is not opened and
\* keeps what the earlier run left in it, however many articles there are.
C5_MissingTemplateWritesNothing ==
    Did("template missing") =>
        /\ ~Did("write output")
        /\ output_file = OldPage

C5_Witness ==
    /\ pc = "done"
    /\ Did("template missing")
    /\ Len(articles_data) = ARTICLES_TO_GENERATE

\* C7: with articles_data empty main touches no file (neither the template nor
\* the output), and the output file is written only with an article in
\* articles_data.
C7_NoArticlesNoFiles ==
    /\ articles_data = <<>> => (file_ops = <<>> /\ output_file = OldPage)
    /\ (Did("write output") \/ output_file # OldPage) => articles_data # <<>>

C7_Witness ==
    /\ pc = "done"
    /\ idx = ARTICLES_TO_GENERATE
    /\ articles_data = <<>>
    /\ file_ops = <<>>

\* How far the run has come: the POSTs issued, the query_api calls whose
\* result the caller has dealt with, and the page assembly.
Progress ==
    posts + ((1 + idx + pauses) - (IF caller # "main" THEN 1 ELSE 0))
          + (IF file_ops # <<>> THEN 1 ELSE 0)

MaxSteps == MaxPosts + (1 + 2 * ARTICLES_TO_GENERATE) + 1

\* C10: a run issues at most retries * (1 + 2 * ARTICLES_TO_GENERATE) POSTs,
\* however many topics the model names: one topic query, then an article
\* query for at most ARTICLES_TO_GENERATE topics and at most one image query
\* for each, every query at most retries POSTs.  And the run ends: until main
\* has returned or an exception has ended it there is a next step, every
\* step adds to Progress, and Progress never exceeds MaxSteps.
C10_BoundedPosts ==
    /\ [](/\ posts <= MaxPosts
          /\ attempts <= retries
          /\ idx <= ARTICLES_TO_GENERATE
          /\ pauses <= idx
          /\ posts <= retries * (1 + idx + pauses)
          /\ (Terminal \/ ENABLED Next))
    /\ [][Progress' > Progress /\ Progress' <= MaxSteps]_vars

C10_Witness ==
    /\ pc = "done"
    /\ posts = MaxPosts
    /\ Len(topics) > ARTICLES_TO_GENERATE

\* The dictionary parsed for topic j, when one was: the article made of it,
\* or main's content while generate_article_image is at work on topic j.
HasText(j) ==
    \/ \E k \in 1..Len(sources) : sources[k] = j
    \/ (j = idx /\ caller = "image")

TextOf(j) ==
    IF \E k \in 1..Len(sources) : sources[k] = j
    THEN articles_data[CHOOSE k \in 1..Len(sources) : sources[k] = j]
    ELSE content

WellFormed(dict) == {"title", "content", "meta"} \subseteq DOMAIN dict

\* The page made of the template and one fragment per article, in order.
PageOf(articles) ==
    <<[tag |-> "head"]>>
        \o [k \in 1..Len(articles) |-> ArticleHtml(articles[k])]
        \o <<[tag |-> "foot"]>>

\* C6: when the run is over, 3 topics were found, the article text of each
\* was received and well-formed and the template is there, then articles_data
\* holds 3 articles, one per topic in topic order, and the output file is the
\* template with their 3 fragments in that order, whatever the image calls did.
C6_ThreeTopicsThreeArticles ==
    (/\ Terminal
     /\ Len(topics) = ARTICLES_TO_GENERATE
     /\ \A j \in 1..ARTICLES_TO_GENERATE : HasText(j) /\ WellFormed(TextOf(j))
     /\ ~Did("template missing"))
    => /\ Len(articles_data) = ARTICLES_TO_GENERATE
       /\ sources = [k \in 1..ARTICLES_TO_GENERATE |-> k]
       /\ Did("write output")
       /\ output_file = PageOf(articles_data)

\* The topics whose article generation ended in a soft failure: the for
\* loop took them up and was done with them without making an article.
SoftFailures ==
    {j \in 1..idx :
        /\ \A k \in 1..Len(sources) : sources[k] # j
        /\ ~(pc = "crashed" /\ j = idx)
        /\ ~(pc \in {"query", "returned"} /\ j = idx)}

\* C8: when the run is over and a topic failed softly, article generation was
\* attempted for every topic among the first ARTICLES_TO_GENERATE, and unless
\* no article survived or the template is missing, the output file holds the
\* fragments of exactly the surviving articles.
C8_SoftFailureExcludesOnlyThatTopic ==
    (Terminal /\ SoftFailures # {}) =>
        /\ idx = Min(Len(topics), ARTICLES_TO_GENERATE)
        /\ (articles_data # <<>> /\ ~Did("template missing")) =>
                (Did("write output") /\ output_file = PageOf(articles_data))

\* A line that starts with no label and is not blank.
Continuation(line) ==
    /\ ~startswith(line, "TITULO:")
    /\ ~startswith(line, "CONTEUDO:")
    /\ ~startswith(line, "METADESCRIPTION:")
    /\ strip(line) # <<>>

\* The parser is about to take a continuation line.
AtContinuation ==
    /\ pc = "parse"
    /\ line_no < Len(lines)
    /\ Continuation(lines[line_no + 1])

Appended(dict, key, line) == Put(dict, key, dict[key] \o <<"\n">> \o strip(line))

\* C9: a continuation line is appended to whichever field is active, be it
\* title, content or meta.
C9_AppendsToActiveField ==
    [][(AtContinuation /\ current_key # "None") =>
            content_dict' = Appended(content_dict, current_key, lines[line_no + 1])]_vars

\* C9 as amended: a continuation line is appended to content when content is
\* the active field; with title, meta or no field active it changes nothing.
C9_AppendsToContentOnly ==
    [][AtContinuation =>
            /\ current_key' = current_key
            /\ content_dict' =
                  IF current_key = "content"
                  THEN Appended(content_dict, "content", lines[line_no + 1])
                  ELSE content_dict]_vars

\* the parser has taken a continuation line right after a METADESCRIPTION:
\* line, and meta is what that line seeded
C9_Witness ==
    /\ pc = "parsed"
    /\ \E k \in 2..Len(lines) :
          /\ startswith(lines[k - 1], "METADESCRIPTION:")
          /\ Continuation(lines[k])
    /\ content_dict["meta"] = <<"m">>

====
